---- MODULE Spec2Model ----
(***************************************************************************)
(* Shiden34Contract (psp34_shiden/contracts/shiden34/src/lib.rs): a PSP34  *)
(* collection with paid sequential minting, a supply cap, an owner-set     *)
(* base URI and a reentrancy-guarded batch mint.                           *)
(*                                                                         *)
(* The contract is modelled at the level of its Rust methods, as the unit  *)
(* tests call them.  `self` is the storage struct.  u64 and Balance (u128) *)
(* keep a range, scaled down to 0..U64Max and 0..BalanceMax; an arithmetic *)
(* overflow panics when the build has overflow checks and wraps otherwise  *)
(* (overflow_checks is chosen once, at Init).  A panic aborts the whole    *)
(* top-level call and leaves the storage as it was before the call.        *)
(* An Err return keeps what the method had already written (mint returns   *)
(* TokenExists with last_token_id already incremented).                    *)
(* mint_for runs in steps (call, one step per loop iteration, return) so   *)
(* that the states in which the reentrancy guard is held are visible; the  *)
(* only call that can arrive in between is a re-entrant mint_for.          *)
(***************************************************************************)
EXTENDS Integers, Sequences, FiniteSets, TLC

\* ---------------------------------------------------------------- bounds
\* U64Max stands for u64::MAX and BalanceMax for u128::MAX, the square of the
\* u64 modulus less one, as 2^128 - 1 is to 2^64.
\* MaxBurns caps the number of successful burns of one behaviour.
U64Max == 3
MaxDepth == 2
MaxBurns == 1

\* ------------------------------------------------------------ data types
BalanceMax == (U64Max + 1) * (U64Max + 1) - 1
U64 == 0..U64Max
Balance == 0..BalanceMax
Wrap64(n) == n % (U64Max + 1)
Wrap128(n) == n % (BalanceMax + 1)

Accounts == {"alice", "bob"}
NoOwner == "none"
NoAttr == "unset"
BASE_URI == "ipfs://myIpfsUri/"
NEW_BASE_URI == "new_uri/"
Uris == {BASE_URI, NEW_BASE_URI}
AttrKeys == {"name", "symbol", "baseUri"}
NOT_ENTERED == "NOT_ENTERED"
ENTERED == "ENTERED"

Unit == "()"
Ok(v) == [tag |-> "Ok", val |-> v]
Err(e) == [tag |-> "Err", val |-> e]
Panic == [tag |-> "Panic", val |-> "panic"]
Pending == [tag |-> "Pending", val |-> "in progress"]
NoResult == [tag |-> "None", val |-> "none"]

VARIABLES self, overflow_checks, stack, call, result, nested, pre, burns
vars == <<self, overflow_checks, stack, call, result, nested, pre, burns>>

\* ------------------------------------------------- storage and collaborators
Default ==
  [token_owner |-> [id \in U64 |-> NoOwner],
   balances |-> [a \in Accounts \cup {NoOwner} |-> <<>>],
   attributes |-> [k \in AttrKeys |-> NoAttr],
   guard |-> NOT_ENTERED,
   owner |-> NoOwner,
   last_token_id |-> 0,
   collection_id |-> 0,
   max_supply |-> 0,
   price_per_mint |-> 0]

_set_attribute(s, key, value) == [s EXCEPT !.attributes[key] = value]
get_attribute(s, key) == s.attributes[key]
owner_of(s, id) == s.token_owner[id]
balance_of(s, a) == Len(s.balances[a])
total_supply(s) == Len(s.balances[NoOwner])
_init_with_owner(s, caller) == [s EXCEPT !.owner = caller]

_mint_to(s, to, id) ==
  IF owner_of(s, id) # NoOwner
  THEN [result |-> Err("TokenExists"), self |-> s]
  ELSE [result |-> Ok(Unit),
        self |-> [s EXCEPT !.token_owner[id] = to,
                           !.balances[to] = Append(@, id),
                           !.balances[NoOwner] = Append(@, id)]]

\* ------------------------------------------------------------ constructor
\* new that does not store the base path.
new_without_base_uri(caller, name, symbol, base_uri, max_supply, price_per_mint) ==
  LET s1 == _set_attribute(Default, "name", name)
      s2 == _set_attribute(s1, "symbol", symbol)
      s4 == [s2 EXCEPT !.max_supply = max_supply,
                       !.price_per_mint = price_per_mint,
                       !.last_token_id = 0]
  IN _init_with_owner(s4, caller)

new(caller, name, symbol, base_uri, max_supply, price_per_mint) ==
  LET s1 == _set_attribute(Default, "name", name)
      s2 == _set_attribute(s1, "symbol", symbol)
      s3 == _set_attribute(s2, "baseUri", base_uri)
      s4 == [s3 EXCEPT !.max_supply = max_supply,
                       !.price_per_mint = price_per_mint,
                       !.last_token_id = 0]
  IN _init_with_owner(s4, caller)

\* ----------------------------------------------------------------- checks
check_value(s, mint_amount, value) ==
  LET expected == mint_amount * s.price_per_mint IN
  IF expected > BalanceMax /\ overflow_checks THEN Panic
  ELSE IF value # Wrap128(expected) THEN Err("BadMintValue")
  ELSE Ok(Unit)

\* check_amount comparing the requested amount alone with the cap.
check_amount_ignoring_issued(s, mint_amount) ==
  IF mint_amount = 0 THEN Err("CannotMintZeroTokens")
  ELSE IF mint_amount > s.max_supply THEN Err("CollectionFullOrLocked")
  ELSE Ok(Unit)

\* check_amount without the zero test.
check_amount_accepting_zero(s, mint_amount) ==
  IF s.last_token_id + mint_amount > U64Max /\ overflow_checks THEN Panic
  ELSE IF Wrap64(s.last_token_id + mint_amount) > s.max_supply
       THEN Err("CollectionFullOrLocked")
  ELSE Ok(Unit)

check_amount(s, mint_amount) ==
  IF mint_amount = 0 THEN Err("CannotMintZeroTokens")
  ELSE IF s.last_token_id + mint_amount > U64Max /\ overflow_checks THEN Panic
  ELSE IF Wrap64(s.last_token_id + mint_amount) > s.max_supply
       THEN Err("CollectionFullOrLocked")
  ELSE Ok(Unit)

token_exists(s, id) ==
  IF owner_of(s, id) = NoOwner THEN Err("TokenNotExists") ELSE Ok(Unit)

\* ------------------------------------------------------------------ mint
\* PSP34Mintable::mint: the arguments account and id are ignored.
mint(s, caller, account, id, value) ==
  LET cv == check_value(s, 1, value) IN
  IF cv # Ok(Unit) THEN [result |-> cv, self |-> s]
  ELSE IF s.last_token_id + 1 > U64Max /\ overflow_checks
       THEN [result |-> Panic, self |-> s]
  ELSE LET s1 == [s EXCEPT !.last_token_id = Wrap64(@ + 1)]
           m == _mint_to(s1, caller, s1.last_token_id)
       IN [result |-> m.result, self |-> m.self]

\* -------------------------------------------------------------- mint_for
NoFrame == [to |-> NoOwner, mint_id |-> 0, mint_offset |-> 0]

\* The body of mint_for up to the loop: the two checks and the range bounds.
mint_for_start(s, to, mint_amount, value) ==
  LET cv == check_value(s, mint_amount, value)
      ca == check_amount(s, mint_amount)
      next_to_mint == s.last_token_id + 1
      mint_offset == Wrap64(next_to_mint) + mint_amount
  IN IF cv # Ok(Unit) THEN [result |-> cv, frame |-> NoFrame]
     ELSE IF ca # Ok(Unit) THEN [result |-> ca, frame |-> NoFrame]
     ELSE IF next_to_mint > U64Max /\ overflow_checks
          THEN [result |-> Panic, frame |-> NoFrame]
     ELSE IF mint_offset > U64Max /\ overflow_checks
          THEN [result |-> Panic, frame |-> NoFrame]
     ELSE [result |-> Pending,
           frame |-> [to |-> to, mint_id |-> Wrap64(next_to_mint),
                      mint_offset |-> Wrap64(mint_offset)]]

\* mint_for without the non_reentrant modifier.
mint_for_call_unguarded(s, to, mint_amount, value) ==
  LET b == mint_for_start(s, to, mint_amount, value) IN
  [result |-> b.result, self |-> s, frame |-> b.frame]

\* mint_for whose early returns leave the guard taken.
mint_for_call_keeping_guard(s, to, mint_amount, value) ==
  IF s.guard = ENTERED
  THEN [result |-> Err("RG::ReentrantCall"), self |-> s, frame |-> NoFrame]
  ELSE LET s1 == [s EXCEPT !.guard = ENTERED]
           b == mint_for_start(s1, to, mint_amount, value)
       IN [result |-> b.result, self |-> s1, frame |-> b.frame]

\* #[modifiers(non_reentrant)] around the body: a call made while the guard
\* is held is rejected; otherwise the guard is taken, and given back as soon
\* as the body returns.
mint_for_call(s, to, mint_amount, value) ==
  IF s.guard = ENTERED
  THEN [result |-> Err("RG::ReentrantCall"), self |-> s, frame |-> NoFrame]
  ELSE LET s1 == [s EXCEPT !.guard = ENTERED]
           b == mint_for_start(s1, to, mint_amount, value)
       IN IF b.result = Pending
          THEN [result |-> Pending, self |-> s1, frame |-> b.frame]
          ELSE [result |-> b.result,
                self |-> [s1 EXCEPT !.guard = NOT_ENTERED],
                frame |-> NoFrame]

\* One iteration whose registration result is dropped instead of asserted.
mint_for_step_without_assert(s, f) ==
  LET m == _mint_to(s, f.to, f.mint_id) IN
  IF m.self.last_token_id + 1 > U64Max /\ overflow_checks
  THEN [result |-> Panic, self |-> s, frame |-> f]
  ELSE [result |-> Pending,
        self |-> [m.self EXCEPT !.last_token_id = Wrap64(@ + 1)],
        frame |-> [f EXCEPT !.mint_id = @ + 1]]

\* One iteration of the loop, for a frame with mint_id < mint_offset.
mint_for_step(s, f) ==
  LET m == _mint_to(s, f.to, f.mint_id) IN
  IF m.result # Ok(Unit) THEN [result |-> Panic, self |-> s, frame |-> f]
  ELSE IF m.self.last_token_id + 1 > U64Max /\ overflow_checks
       THEN [result |-> Panic, self |-> s, frame |-> f]
  ELSE [result |-> Pending,
        self |-> [m.self EXCEPT !.last_token_id = Wrap64(@ + 1)],
        frame |-> [f EXCEPT !.mint_id = @ + 1]]

\* The range is exhausted: Ok(()) and the guard is given back.
mint_for_return(s) ==
  [result |-> Ok(Unit), self |-> [s EXCEPT !.guard = NOT_ENTERED]]

\* The loop run to its end, and the whole call: what the steps above add up to.
RECURSIVE mint_for_loop(_, _)
mint_for_loop(s, f) ==
  IF f.mint_id < f.mint_offset
  THEN LET o == mint_for_step(s, f) IN
       IF o.result = Panic THEN [result |-> Panic, self |-> s]
       ELSE mint_for_loop(o.self, o.frame)
  ELSE mint_for_return(s)

mint_for(s, to, mint_amount, value) ==
  LET o == mint_for_call(s, to, mint_amount, value)
      r == mint_for_loop(o.self, o.frame)
  IN IF o.result # Pending
     THEN [result |-> o.result, self |-> IF o.result = Panic THEN s ELSE o.self]
     ELSE [result |-> r.result, self |-> IF r.result = Panic THEN s ELSE r.self]

\* ---------------------------------------------------- set_base_uri, token_uri
only_owner(s, caller) ==
  IF s.owner # caller THEN Err("O::CallerIsNotOwner") ELSE Ok(Unit)

\* set_base_uri without the only_owner modifier.
set_base_uri_by_anyone(s, caller, uri) ==
  [result |-> Ok(Unit), self |-> _set_attribute(s, "baseUri", uri)]

\* set_base_uri that starts the issuance over.
set_base_uri_resetting_issuance(s, caller, uri) ==
  IF only_owner(s, caller) # Ok(Unit)
  THEN [result |-> only_owner(s, caller), self |-> s]
  ELSE [result |-> Ok(Unit),
        self |-> [_set_attribute(s, "baseUri", uri) EXCEPT !.last_token_id = 0]]

set_base_uri(s, caller, uri) ==
  IF only_owner(s, caller) # Ok(Unit)
  THEN [result |-> only_owner(s, caller), self |-> s]
  ELSE [result |-> Ok(Unit), self |-> _set_attribute(s, "baseUri", uri)]

Digits == <<"0", "1", "2", "3", "4", "5", "6", "7", "8", "9">>
RECURSIVE to_string(_)
to_string(n) ==
  IF n < 10 THEN Digits[n + 1]
  ELSE to_string(n \div 10) \o Digits[(n % 10) + 1]

\* token_uri without the existence check.
token_uri_unchecked(s, token_id) ==
  Ok(get_attribute(s, "baseUri") \o to_string(token_id) \o ".json")

token_uri(s, token_id) ==
  IF token_exists(s, token_id) # Ok(Unit) THEN token_exists(s, token_id)
  ELSE LET value == get_attribute(s, "baseUri") IN
       IF value = NoAttr THEN Panic
       ELSE Ok(value \o to_string(token_id) \o ".json")

\* ----------------------------------------------------------- state machine
Supplies == {U64Max - 1, U64Max}
Prices == {1, (BalanceMax + 1) \div 2}
PayChoices(s, mint_amount) ==
  LET e == mint_amount * s.price_per_mint IN
  {v \in Balance : v \in {0, e - 1, e, e + 1, Wrap128(e)}}

NoCall ==
  [op |-> "new", caller |-> "alice", to |-> NoOwner, mint_amount |-> 0,
   value |-> 0, uri |-> "", token_id |-> 0]

Init ==
  /\ \E max_supply \in Supplies, price_per_mint \in Prices :
       self = new("alice", "Shiden34", "SH34", BASE_URI, max_supply, price_per_mint)
  /\ overflow_checks \in BOOLEAN
  /\ stack = <<>>
  /\ call = NoCall
  /\ result = NoResult
  /\ nested = NoResult
  /\ pre = self
  /\ burns = 0

\* A top-level call ends with result r and storage s; a panic leaves the
\* storage as it was before the call.
Finish(c, o) ==
  /\ call' = c
  /\ pre' = self
  /\ nested' = NoResult
  /\ result' = o.result
  /\ self' = IF o.result = Panic THEN self ELSE o.self

Mint(caller, account, id, value) ==
  /\ stack = <<>>
  /\ Finish([NoCall EXCEPT !.op = "mint", !.caller = caller,
                           !.mint_amount = 1, !.value = value],
            mint(self, caller, account, id, value))
  /\ UNCHANGED <<overflow_checks, stack, burns>>

MintFor(to, mint_amount, value) ==
  /\ stack = <<>>
  /\ LET o == mint_for_call(self, to, mint_amount, value) IN
       /\ Finish([NoCall EXCEPT !.op = "mint_for", !.to = to,
                                !.mint_amount = mint_amount, !.value = value], o)
       /\ stack' = IF o.result = Pending THEN <<o.frame>> ELSE <<>>
  /\ UNCHANGED <<overflow_checks, burns>>

\* A call of mint_for that arrives while a mint_for is executing.
MintForNested(to, mint_amount, value) ==
  /\ stack # <<>>
  /\ LET o == mint_for_call(self, to, mint_amount, value) IN
       /\ o.result = Pending => Len(stack) < MaxDepth
       /\ IF o.result = Panic
          THEN self' = pre /\ stack' = <<>> /\ result' = Panic /\ nested' = NoResult
          ELSE /\ self' = o.self
               /\ nested' = o.result
               /\ result' = result
               /\ stack' = IF o.result = Pending THEN <<o.frame>> \o stack ELSE stack
  /\ UNCHANGED <<overflow_checks, call, pre, burns>>

MintForLoop ==
  /\ stack # <<>>
  /\ Head(stack).mint_id < Head(stack).mint_offset
  /\ LET o == mint_for_step(self, Head(stack)) IN
       IF o.result = Panic
       THEN self' = pre /\ stack' = <<>> /\ result' = Panic /\ nested' = NoResult
       ELSE /\ self' = o.self
            /\ stack' = <<o.frame>> \o Tail(stack)
            /\ UNCHANGED <<result, nested>>
  /\ UNCHANGED <<overflow_checks, call, pre, burns>>

MintForReturn ==
  /\ stack # <<>>
  /\ ~(Head(stack).mint_id < Head(stack).mint_offset)
  /\ LET o == mint_for_return(self) IN
       /\ self' = o.self
       /\ stack' = Tail(stack)
       /\ IF Len(stack) = 1
          THEN result' = o.result /\ nested' = NoResult
          ELSE nested' = o.result /\ result' = result
  /\ UNCHANGED <<overflow_checks, call, pre, burns>>

SetBaseUri(caller, uri) ==
  /\ stack = <<>>
  /\ Finish([NoCall EXCEPT !.op = "set_base_uri", !.caller = caller, !.uri = uri],
            set_base_uri(self, caller, uri))
  /\ UNCHANGED <<overflow_checks, stack, burns>>

TokenUri(token_id) ==
  /\ stack = <<>>
  /\ Finish([NoCall EXCEPT !.op = "token_uri", !.token_id = token_id],
            [result |-> token_uri(self, token_id), self |-> self])
  /\ UNCHANGED <<overflow_checks, stack, burns>>

Next ==
  \/ \E caller \in Accounts, account \in Accounts, id \in {0} :
       \E value \in PayChoices(self, 1) : Mint(caller, account, id, value)
  \/ \E to \in Accounts, mint_amount \in U64 :
       \E value \in PayChoices(self, mint_amount) : MintFor(to, mint_amount, value)
  \/ \E to \in Accounts, mint_amount \in U64 :
       \E value \in PayChoices(self, mint_amount) : MintForNested(to, mint_amount, value)
  \/ MintForLoop
  \/ MintForReturn
  \/ \E caller \in Accounts, uri \in Uris : SetBaseUri(caller, uri)
  \/ \E token_id \in U64 : TokenUri(token_id)

Spec == Init /\ [][Next]_vars

TypeOK ==
  /\ self.last_token_id \in U64
  /\ self.guard \in {NOT_ENTERED, ENTERED}
  /\ Len(stack) <= MaxDepth

\* ------------------------------------------- default PSP34Burnable, Ownable
\* The default implementations the contract exposes unchanged: burn removes a
\* token from its owner; transfer_ownership and renounce_ownership replace the
\* owner and are restricted to the current owner.
IndexOf(seq, v) == CHOOSE i \in 1..Len(seq) : seq[i] = v
SwapRemove(seq, v) ==
  IF \A i \in 1..Len(seq) : seq[i] # v THEN seq
  ELSE SubSeq([seq EXCEPT ![IndexOf(seq, v)] = seq[Len(seq)]], 1, Len(seq) - 1)

burn(s, account, id) ==
  IF owner_of(s, id) = NoOwner
  THEN [result |-> Err("TokenNotExists"), self |-> s]
  ELSE [result |-> Ok(Unit),
        self |-> [s EXCEPT !.token_owner[id] = NoOwner,
                           !.balances[account] = SwapRemove(@, id),
                           !.balances[NoOwner] = SwapRemove(@, id)]]

\* transfer_ownership without the only_owner modifier.
transfer_ownership_by_anyone(s, caller, new_owner) ==
  [result |-> Ok(Unit), self |-> [s EXCEPT !.owner = new_owner]]

transfer_ownership(s, caller, new_owner) ==
  IF only_owner(s, caller) # Ok(Unit)
  THEN [result |-> only_owner(s, caller), self |-> s]
  ELSE IF new_owner = NoOwner
       THEN [result |-> Err("O::NewOwnerIsZero"), self |-> s]
  ELSE [result |-> Ok(Unit), self |-> [s EXCEPT !.owner = new_owner]]

renounce_ownership(s, caller) ==
  IF only_owner(s, caller) # Ok(Unit)
  THEN [result |-> only_owner(s, caller), self |-> s]
  ELSE [result |-> Ok(Unit), self |-> [s EXCEPT !.owner = NoOwner]]

\* burn is called for a token with the account that owns it, or for a token
\* that does not exist; the default implementation does not look at the caller.
Burn(account, id) ==
  /\ stack = <<>>
  /\ burns < MaxBurns
  /\ owner_of(self, id) \in {NoOwner, account}
  /\ Finish([NoCall EXCEPT !.op = "burn", !.to = account, !.token_id = id],
            burn(self, account, id))
  /\ burns' = IF burn(self, account, id).result = Ok(Unit) THEN burns + 1 ELSE burns
  /\ UNCHANGED <<overflow_checks, stack>>

TransferOwnership(caller, new_owner) ==
  /\ stack = <<>>
  /\ Finish([NoCall EXCEPT !.op = "transfer_ownership", !.caller = caller,
                           !.to = new_owner],
            transfer_ownership(self, caller, new_owner))
  /\ UNCHANGED <<overflow_checks, stack, burns>>

RenounceOwnership(caller) ==
  /\ stack = <<>>
  /\ Finish([NoCall EXCEPT !.op = "renounce_ownership", !.caller = caller],
            renounce_ownership(self, caller))
  /\ UNCHANGED <<overflow_checks, stack, burns>>

\* One construction: a cap below u64::MAX and a unit price, either build.
InitOne == Init /\ self.max_supply = U64Max - 1 /\ self.price_per_mint = 1

\* The minting messages together with burn.
NextBurn ==
  \/ \E caller \in Accounts, account \in Accounts, id \in {0} :
       \E value \in PayChoices(self, 1) : Mint(caller, account, id, value)
  \/ \E to \in Accounts, mint_amount \in U64 :
       \E value \in PayChoices(self, mint_amount) : MintFor(to, mint_amount, value)
  \/ MintForLoop
  \/ MintForReturn
  \/ \E account \in Accounts, id \in U64 : Burn(account, id)

SpecBurn == InitOne /\ [][NextBurn]_vars

\* The contract's own messages together with the Ownable ones.
NextOwnable ==
  \/ Next
  \/ \E caller \in Accounts, new_owner \in Accounts \cup {NoOwner} :
       TransferOwnership(caller, new_owner)
  \/ \E caller \in Accounts : RenounceOwnership(caller)

SpecOwnable == InitOne /\ [][NextOwnable]_vars

\* -------------------------------------------------------------- properties
Done == stack = <<>>
Exact(c, s) == c.value = c.mint_amount * s.price_per_mint

\* C1: in every reachable state last_token_id <= max_supply, whichever entry
\* point (mint or mint_for) issued the tokens.
C1_LastTokenIdWithinMaxSupply == self.last_token_id <= self.max_supply

NewIds(c, s) == [i \in 1..c.mint_amount |-> s.last_token_id + i]

\* C2: mint_for with quantity > 0, exact payment and last_token_id + quantity
\* <= max_supply succeeds, registers last_token_id+1 .. last_token_id+quantity
\* to the recipient in ascending order (balance and total supply grow by
\* quantity) and increases last_token_id by exactly quantity.
C2_MintForIssuesBatch ==
  (Done /\ call.op = "mint_for" /\ call.mint_amount > 0 /\ Exact(call, pre)
        /\ pre.last_token_id + call.mint_amount <= pre.max_supply)
  => /\ result = Ok(Unit)
     /\ self.last_token_id = pre.last_token_id + call.mint_amount
     /\ \A i \in 1..call.mint_amount :
          owner_of(self, pre.last_token_id + i) = call.to
     /\ self.balances[call.to] = pre.balances[call.to] \o NewIds(call, pre)
     /\ balance_of(self, call.to) = balance_of(pre, call.to) + call.mint_amount
     /\ total_supply(self) = total_supply(pre) + call.mint_amount

C4_BadPaymentRejected ==
  (Done /\ call.op \in {"mint_for", "mint"} /\ ~Exact(call, pre))
  => (result = Err("BadMintValue") /\ self = pre)

\* C5: mint_for(recipient, 0) fails with Custom("CannotMintZeroTokens") in
\* every state and for every attached payment, and changes no state.
C5_ZeroQuantityRejected ==
  (Done /\ call.op = "mint_for" /\ call.mint_amount = 0)
  => (result = Err("CannotMintZeroTokens") /\ self = pre)

\* C5 as amended: mint_for(recipient, 0) always fails and changes no state;
\* the error is Custom("CannotMintZeroTokens") when the attached payment is 0
\* and Custom("BadMintValue") when it is not, as check_value runs first.
C5_ZeroQuantityRejectedAfterPayment ==
  (Done /\ call.op = "mint_for" /\ call.mint_amount = 0)
  => /\ self = pre
     /\ call.value = 0 => result = Err("CannotMintZeroTokens")
     /\ call.value # 0 => result = Err("BadMintValue")

C5_Witness ==
  /\ Done /\ call.op = "mint_for" /\ call.mint_amount = 0 /\ call.value = 0
  /\ pre.last_token_id > 0 /\ pre.last_token_id < pre.max_supply
  /\ result = Err("CannotMintZeroTokens")

\* C6: mint(recipient, ignored_id) is equivalent to mint_for(recipient, 1):
\* from the same state and with the same payment both return the same result
\* and produce the same storage, the new token registered to the recipient.
C6_MintIsMintForOne ==
  Done => \A caller \in Accounts, account \in Accounts, value \in Balance :
            mint(self, caller, account, 0, value) = mint_for(self, account, 1, value)

\* C7: token_uri(id) fails with TokenNotExists when id has no registered
\* owner, and otherwise returns the base path current at the time of the call
\* followed by the decimal id and ".json"; it changes nothing.
C7_TokenUriUsesCurrentBasePath ==
  (call.op = "token_uri")
  => /\ self = pre
     /\ owner_of(self, call.token_id) = NoOwner => result = Err("TokenNotExists")
     /\ owner_of(self, call.token_id) # NoOwner =>
          result = Ok(self.attributes["baseUri"] \o to_string(call.token_id) \o ".json")

C7_Witness ==
  /\ call.op = "token_uri" /\ call.token_id = 1
  /\ self.attributes["baseUri"] = NEW_BASE_URI
  /\ result = Ok("new_uri/1.json")

\* C8: set_base_uri by an account other than the owner fails with
\* Custom("O::CallerIsNotOwner") and leaves the base path (and everything
\* else) unchanged; by the owner it succeeds and the stored base path is the
\* new value, nothing else being changed.
C8_SetBaseUriOnlyOwner ==
  (call.op = "set_base_uri")
  => /\ call.caller # pre.owner =>
          (result = Err("O::CallerIsNotOwner") /\ self = pre)
     /\ call.caller = pre.owner =>
          /\ result = Ok(Unit)
          /\ get_attribute(self, "baseUri") = call.uri
          /\ self = [pre EXCEPT !.attributes["baseUri"] = call.uri]

C8_Witness ==
  /\ call.op = "set_base_uri" /\ call.caller = "bob" /\ call.uri = BASE_URI
  /\ pre.attributes["baseUri"] = NEW_BASE_URI
  /\ self.attributes["baseUri"] = NEW_BASE_URI
  /\ result = Err("O::CallerIsNotOwner")

\* C9: while a mint_for is executing, every call of mint_for fails with
\* Custom("RG::ReentrantCall") and changes no state, whatever its arguments
\* and payment.
C9_NestedMintForRejected ==
  (stack # <<>>)
  => /\ nested \in {NoResult, Err("RG::ReentrantCall")}
     /\ Len(stack) = 1
     /\ \A to \in Accounts, mint_amount \in U64, value \in Balance :
          mint_for_call(self, to, mint_amount, value)
            = [result |-> Err("RG::ReentrantCall"), self |-> self, frame |-> NoFrame]

C9_Witness ==
  /\ stack # <<>> /\ nested = Err("RG::ReentrantCall")
  /\ self.last_token_id > pre.last_token_id
  /\ Head(stack).mint_id < Head(stack).mint_offset

\* C10: whenever no mint_for is in progress the guard is free, whichever way
\* the earlier calls ended, and a top-level mint_for is never rejected with
\* Custom("RG::ReentrantCall").
C10_GuardReleased ==
  Done => /\ self.guard = NOT_ENTERED
          /\ call.op = "mint_for" => result # Err("RG::ReentrantCall")
          /\ \A to \in Accounts, mint_amount \in U64, value \in Balance :
               mint_for_call(self, to, mint_amount, value).result
                 # Err("RG::ReentrantCall")

C10_Witness ==
  /\ Done /\ call.op = "mint_for" /\ result = Err("CollectionFullOrLocked")
  /\ pre.last_token_id > 0 /\ pre.balances["bob"] # <<>>
  /\ self.guard = NOT_ENTERED

\* The IDs the loop of a mint_for call c visits from storage s.
BatchIds(c, s) ==
  LET f == mint_for_start(s, c.to, c.mint_amount, c.value).frame IN
  {id \in U64 : f.mint_id <= id /\ id < f.mint_offset}
Started(c, s) == mint_for_start(s, c.to, c.mint_amount, c.value).result = Pending

\* C11: batch minting is all-or-nothing: when a registration step of mint_for
\* fails the whole call fails, and after a failed call the storage
\* (last_token_id, the registered IDs) is what it was before the call.
C11_BatchAllOrNothing ==
  (Done /\ call.op = "mint_for")
  => /\ (Started(call, pre) /\ \E id \in BatchIds(call, pre) : owner_of(pre, id) # NoOwner)
          => result = Panic
     /\ result # Ok(Unit) => self = pre

C11_Witness ==
  /\ Done /\ call.op = "mint_for" /\ result = Panic
  /\ Started(call, pre) /\ call.mint_amount > 1
  /\ owner_of(pre, Wrap64(pre.last_token_id + 1)) # NoOwner
  /\ self = pre

\* C12: after any sequence of mint and mint_for calls the IDs with a
\* registered owner are exactly 1 .. last_token_id; ID 0 and every ID above
\* last_token_id have no owner.
C12_DenseTokenIds ==
  Done => \A id \in U64 :
            (owner_of(self, id) # NoOwner) <=> (1 <= id /\ id <= self.last_token_id)

\* C13: last_token_id never decreases from one call to the next, burns
\* included, and no call of mint or mint_for registers an ID that had been
\* issued before (an ID up to the last_token_id the call started from).
C13_LastTokenIdNeverDecreases ==
  Done => /\ self.last_token_id >= pre.last_token_id
          /\ \A id \in U64 :
               (owner_of(pre, id) = NoOwner /\ owner_of(self, id) # NoOwner)
               => id > pre.last_token_id

C15_PaymentCheckedFirst ==
  (Done /\ call.op = "mint_for" /\ ~Exact(call, pre)
        /\ (call.mint_amount = 0
             \/ pre.last_token_id + call.mint_amount > pre.max_supply))
  => result = Err("BadMintValue") /\ self = pre

\* C16: the supply check does not wrap: for every mint_amount whose sum with
\* last_token_id exceeds the 64-bit range, check_amount rejects with
\* Custom("CollectionFullOrLocked").
C16_SupplyCheckDoesNotWrap ==
  \A mint_amount \in U64 :
    self.last_token_id + mint_amount > U64Max
    => check_amount(self, mint_amount) = Err("CollectionFullOrLocked")

\* C17: every change to last_token_id is made while the reentrancy guard is
\* held; no entry point, the single-unit mint included, changes it while the
\* guard is free.
C17_CounterChangedUnderGuard ==
  [][self'.last_token_id # self.last_token_id => self.guard = ENTERED]_vars

\* C17 as amended: mint_for changes last_token_id only inside its loop, with
\* the guard held (or the whole call is undone by a panic); mint adds one to
\* it without taking the guard; no other entry point changes it.
C17_CounterChangedUnderGuardOrByMint ==
  [][self'.last_token_id # self.last_token_id
       => IF stack = <<>>
          THEN /\ call'.op = "mint"
               /\ self.guard = NOT_ENTERED /\ self'.guard = NOT_ENTERED
               /\ self'.last_token_id = Wrap64(self.last_token_id + 1)
          ELSE /\ call.op = "mint_for"
               /\ self.guard = ENTERED
               /\ \/ self'.last_token_id = Wrap64(self.last_token_id + 1)
                  \/ result' = Panic /\ self' = pre]_vars

C17_Witness ==
  /\ Done /\ call.op = "mint" /\ result = Ok(Unit)
  /\ pre.guard = NOT_ENTERED /\ self.guard = NOT_ENTERED
  /\ pre.last_token_id > 0
  /\ self.last_token_id = pre.last_token_id + 1

\* C18: max_supply and price_per_mint keep their construction values;
\* set_base_uri changes nothing but the base path attribute; mint and
\* mint_for never change the base path, max_supply or price_per_mint.
C18_FrameConditions ==
  [][/\ self'.max_supply = self.max_supply
     /\ self'.price_per_mint = self.price_per_mint
     /\ call'.op = "set_base_uri"
          => self' = _set_attribute(self, "baseUri", get_attribute(self', "baseUri"))
     /\ call'.op \in {"mint", "mint_for"} => self'.attributes = self.attributes]_vars

C18_Witness ==
  /\ Done /\ call.op = "set_base_uri" /\ result = Ok(Unit)
  /\ get_attribute(pre, "baseUri") = BASE_URI
  /\ get_attribute(self, "baseUri") = NEW_BASE_URI
  /\ self.last_token_id > 0 /\ self.last_token_id = pre.last_token_id
  /\ self.token_owner = pre.token_owner

\* C19: in every reachable state the base path attribute is set, so token_uri
\* never fails at the unwrap of the attribute read: for every token it
\* returns Ok or Err, never a panic.
C19_BaseUriAlwaysSet ==
  /\ get_attribute(self, "baseUri") # NoAttr
  /\ \A token_id \in U64 : token_uri(self, token_id).tag \in {"Ok", "Err"}
  /\ call.op = "token_uri" => result.tag \in {"Ok", "Err"}

C19_Witness ==
  /\ Done /\ call.op = "token_uri" /\ result.tag = "Ok"
  /\ owner_of(self, call.token_id) = "bob"
  /\ get_attribute(self, "baseUri") \in Uris

\* C20: the assertion in the loop of mint_for never fails: in every state
\* reached by mints, batch mints and burns, once the payment and supply checks
\* of a mint_for pass, none of the IDs of its range has an owner.
C20_LoopAssertionNeverFails ==
  Done => \A to \in Accounts, mint_amount \in U64, value \in Balance :
            LET c == [NoCall EXCEPT !.to = to, !.mint_amount = mint_amount,
                                    !.value = value]
            IN Started(c, self)
               => \A id \in BatchIds(c, self) : owner_of(self, id) = NoOwner

====
